---- MODULE Spec2Model ----
(***************************************************************************)
(* A model of the langraph-chatbot repository: the turn router built by    *)
(* GraphBuilder (graph_builder.py), and the web session store of           *)
(* web_ui.py, with its request handlers run as interleaved threads.        *)
(*                                                                         *)
(* The specifications share the variables:                                 *)
(*   SpecDecision  applies _should_use_tools to bounded graph states;      *)
(*   SpecNode      applies the chatbot node to bounded message lists;      *)
(*   SpecRouter    runs turns of the compiled graph on one thread;         *)
(*   SpecWeb       runs /api/chat, /api/new_session and /api/chat_history  *)
(*                 requests concurrently against web_sessions;             *)
(*   SpecStored    runs the same requests against a store that holds the   *)
(*                 session of a client's cookie;                           *)
(*   SpecChat      serves chat requests one at a time, with and without    *)
(*                 the search tool;                                        *)
(*   SpecBuild     runs LangGraphChatbot.__init__ on an environment;       *)
(*   SpecTrace     runs a session and a turn with the tracing calls made   *)
(*                 explicit;                                               *)
(*   SpecCli       gives inputs to the chat interface around               *)
(*                 stream_response.                                        *)
(***************************************************************************)
EXTENDS Integers, Sequences, FiniteSets, TLC

VARIABLES
    \* ---- SpecDecision: one application of _should_use_tools
    td_state,       \* the graph state handed to _should_use_tools
    td_history,     \* a history prepended to td_state's messages
    td_out,         \* the decision for td_state ("" before the call)
    td_out_hist,    \* the decision for history + td_state
    \* ---- SpecRouter: the compiled graph on one thread of the checkpointer
    tools,          \* GraphBuilder.tools, the tool registry (a sequence of names)
    messages,       \* State["messages"] of the thread, as checkpointed
    router,         \* IDLE | AWAITING_MODEL | AWAITING_TOOL | DONE | RAISED (the run
                    \* ended in an exception)
    llm_input,      \* the message list of the latest model invocation
    last_step,      \* what the latest node execution did
    turns,          \* turns started on the thread
    cycles,         \* tool cycles of the current turn
    \* ---- SpecWeb: the session store and the requests in flight
    web_sessions,   \* web_ui.web_sessions
    session_counter,\* web_ui.session_counter
    clock,          \* int(time.time())
    chatbot,        \* whether init_chatbot has built the global chatbot
    cookie,         \* the Flask session cookie of each client ('session_id')
    req,            \* the requests in flight, one per handler thread
    threads,        \* the checkpointer: the message list of each thread_id
    issued,         \* every session identifier a creation has produced so far
    appended,       \* per store entry, the appends made to it since it was stored
    nreq,           \* requests started so far
    \* ---- the application around the graph
    env,            \* os.environ, the keys ChatbotConfig.from_env reads
    config,         \* the ChatbotConfig and how far LangGraphChatbot.__init__ got
    core,           \* LangGraphChatbot: turn_count and what stream_response did
    chat_interface  \* ChatInterface: turn_count and the inputs it was given

td_vars == <<td_state, td_history, td_out, td_out_hist>>
router_vars == <<tools, messages, router, llm_input, last_step, turns, cycles>>
web_vars == <<web_sessions, session_counter, clock, chatbot, cookie, req, threads,
              issued, appended, nreq>>
app_vars == <<env, config, core, chat_interface>>
vars == <<td_vars, router_vars, web_vars, app_vars>>

(***************************************************************************)
(* Bounds of the model.                                                    *)
(***************************************************************************)
MaxLen == 2        \* messages in a transcript handed to _should_use_tools
MaxCalls == 2      \* tool-call requests in one assistant message
MaxTurns == 2      \* turns on the router's thread
MaxCycles == 1     \* tool cycles explored within one turn
MaxRequests == 2   \* requests started against the web server
MaxClock == 1      \* seconds that pass while the requests run
MaxTracedTurns == 1 \* turns on the thread when the tracing calls are explicit
MaxConversationTurns == 2 \* max_turns of the chat interface (50 by default)
MaxInputs == 4     \* inputs given to the chat interface, calls of stream_response

(***************************************************************************)
(* Messages.  A message is a record; `type' is the langchain message type  *)
(* ("human", "ai", "tool", "system") or "dict" for a plain mapping with a  *)
(* 'role' key, as the graph input and the chatbot node's fallback are.     *)
(* Only an "ai" message object has a tool_calls attribute.                 *)
(***************************************************************************)
SearchTool == "tavily_search"
UnknownTool == "no_such_tool"
FallbackContent == "I encountered an error. Please try again."
ReplyContent == "reply"
EmptyContent == ""
UserContent == "hello"
ToolResultContent == "R"
ToolErrorContent == "Error: tool failed"
InvalidToolContent == "Error: not a valid tool"
SystemPrompt == "system prompt"

NoCallId == <<>>

Msg(type, role, content, calls, call_id, id) ==
    [type |-> type, role |-> role, content |-> content,
     tool_calls |-> calls, tool_call_id |-> call_id, id |-> id]

HumanMessage(content) == Msg("human", "user", content, <<>>, NoCallId, 0)
AIMessage(content, calls) == Msg("ai", "assistant", content, calls, NoCallId, 0)
ToolMessage(content, call_id) == Msg("tool", "tool", content, <<>>, call_id, 0)
SystemMessage(content) == Msg("system", "system", content, <<>>, NoCallId, 0)
DictMessage(role, content) == Msg("dict", role, content, <<>>, NoCallId, 0)

ToolCall(name, id) == [name |-> name, id |-> id]

\* hasattr(msg, 'tool_calls'): only AI message objects declare tool calls.
HasToolCallsAttr(m) == m.type = "ai"

Last(s) == s[Len(s)]

RECURSIVE SeqToSet(_)
SeqToSet(s) == IF s = <<>> THEN {} ELSE {Head(s)} \cup SeqToSet(Tail(s))

(***************************************************************************)
(* GraphBuilder._should_use_tools.  The body is evaluated inside a try     *)
(* block; an exception raised in it is caught and gives "end".  A graph    *)
(* state is [kind, messages]: kind "ok" holds a message list, "no_key" has *)
(* no "messages" key (state["messages"] raises KeyError), "none" holds     *)
(* None (falsy).                                                           *)
(***************************************************************************)
should_use_tools_body(state) ==
    IF state.kind = "no_key" THEN "KeyError"
    ELSE IF state.kind = "none" \/ Len(state.messages) = 0 THEN "end"
    ELSE LET last_message == Last(state.messages) IN
         IF HasToolCallsAttr(last_message) /\ Len(last_message.tool_calls) > 0
         THEN "tools"
         ELSE "end"

\* A plausible slip: the routing function without its try/except.
should_use_tools_unguarded(state) == should_use_tools_body(state)

RECURSIVE AnyToolCalls(_)
AnyToolCalls(msgs) ==
    IF msgs = <<>> THEN FALSE
    ELSE (HasToolCallsAttr(Head(msgs)) /\ Len(Head(msgs).tool_calls) > 0)
         \/ AnyToolCalls(Tail(msgs))

\* A plausible slip: routing on any message of the history, not the last.
should_use_tools_any(state) ==
    IF state.kind # "ok" THEN "end"
    ELSE IF AnyToolCalls(state.messages) THEN "tools" ELSE "end"

should_use_tools(state) ==
    LET r == should_use_tools_body(state) IN
    IF r \in {"tools", "end"} THEN r ELSE "end"

OkState(msgs) == [kind |-> "ok", messages |-> msgs]

(***************************************************************************)
(* Inputs of SpecDecision.                                                 *)
(***************************************************************************)
CallSeqs == UNION {[1..n -> {ToolCall(SearchTool, <<0, 0>>)}] : n \in 0..MaxCalls}

MsgShapes ==
    {HumanMessage(UserContent), ToolMessage(ToolResultContent, <<0, 0>>),
     DictMessage("assistant", FallbackContent), SystemMessage(SystemPrompt)}
    \cup {AIMessage(ReplyContent, c) : c \in CallSeqs}

Transcripts == UNION {[1..n -> MsgShapes] : n \in 0..MaxLen}

DecisionStates ==
    {OkState(t) : t \in Transcripts}
    \cup {[kind |-> "no_key", messages |-> <<>>], [kind |-> "none", messages |-> <<>>]}


(***************************************************************************)
(* The add_messages reducer of State.messages (state.py).  Both sides are  *)
(* converted to message objects, a message without an id gets a fresh one  *)
(* (here its position in the list), and an update whose id is already in   *)
(* the list replaces that entry instead of being appended.                 *)
(***************************************************************************)
Coerce(m) ==
    IF m.type # "dict" THEN m
    ELSE IF m.role = "user" THEN [HumanMessage(m.content) EXCEPT !.id = m.id]
    ELSE [AIMessage(m.content, <<>>) EXCEPT !.id = m.id]

\* A plausible slip: the messages key without its reducer, so that an update
\* replaces the list.
add_messages_replace(left, right) ==
    [k \in 1..Len(right) |-> [Coerce(right[k]) EXCEPT !.id = k]]

RECURSIVE add_messages(_, _)
add_messages(left, right) ==
    IF right = <<>> THEN left
    ELSE LET m == Coerce(Head(right))
             hit == {i \in 1..Len(left) : m.id # 0 /\ left[i].id = m.id}
             merged == IF hit # {}
                       THEN [i \in 1..Len(left) |-> IF i \in hit THEN m ELSE left[i]]
                       ELSE Append(left, [m EXCEPT !.id = Len(left) + 1])
         IN add_messages(merged, Tail(right))

(***************************************************************************)
(* The model invocation (llm.invoke / llm_with_tools.invoke), an opaque    *)
(* collaborator.  An outcome is a failure (any exception of the call) or a *)
(* response with a content and tool-call requests.  Tool calls are only    *)
(* produced when tools are bound, and the provider rejects a message list  *)
(* in which an assistant tool-call request has no tool message answering   *)
(* it.                                                                     *)
(***************************************************************************)
LLMFail == [ok |-> FALSE, content |-> EmptyContent, calls |-> <<>>]
LLMReply(content, calls) == [ok |-> TRUE, content |-> content, calls |-> calls]

ToolNames == {SearchTool, UnknownTool}
CallNames == UNION {[1..n -> ToolNames] : n \in 1..MaxCalls}

\* The tool-call requests of assistant message i that no later tool message answers.
Unanswered(msgs, i) ==
    {k \in 1..Len(msgs[i].tool_calls) :
        ~\E j \in (i + 1)..Len(msgs) :
            msgs[j].type = "tool" /\ msgs[j].tool_call_id = msgs[i].tool_calls[k].id}

ProviderAccepts(msgs) ==
    \A i \in 1..Len(msgs) : msgs[i].type = "ai" => Unanswered(msgs, i) = {}

LLMOutcomes(input, bound_tools) ==
    {LLMFail}
    \cup (IF ProviderAccepts(input)
          THEN {LLMReply(c, <<>>) : c \in {ReplyContent, EmptyContent}}
               \cup (IF bound_tools # <<>>
                     THEN {LLMReply(EmptyContent, n) : n \in CallNames}
                     ELSE {})
          ELSE {})

\* The provider gives every tool-call request of a response its own id.
MakeCalls(names, pos) == [k \in 1..Len(names) |-> ToolCall(names[k], <<pos, k>>)]

(***************************************************************************)
(* GraphBuilder._chatbot_node_with_monitoring.  The node returns           *)
(* [raised, update]: `update' is the "messages" list of the returned       *)
(* mapping, `raised' says an exception left the node.                      *)
(***************************************************************************)
HasSystemMessage(msgs) == \E i \in 1..Len(msgs) : msgs[i].type = "system"

\* A plausible slip: the system message prepended without looking for one.
ModelInputAlways(msgs) == <<SystemMessage(SystemPrompt)>> \o msgs

\* lines 155-166: the system message is prepended to the model's input only.
ModelInput(msgs) ==
    IF ~HasSystemMessage(msgs) THEN <<SystemMessage(SystemPrompt)>> \o msgs ELSE msgs

\* A plausible slip: the node without its except branch lets the failure out.
chatbot_node_unguarded(msgs, o) ==
    IF o.ok
    THEN [raised |-> FALSE,
          update |-> <<AIMessage(o.content, MakeCalls(o.calls, Len(msgs) + 1))>>]
    ELSE [raised |-> TRUE, update |-> <<>>]

chatbot_node(msgs, o) ==
    IF o.ok
    THEN [raised |-> FALSE,
          update |-> <<AIMessage(o.content, MakeCalls(o.calls, Len(msgs) + 1))>>]
    ELSE [raised |-> FALSE,
          update |-> <<DictMessage("assistant", FallbackContent)>>]

(***************************************************************************)
(* GraphBuilder._tools_node_with_monitoring, around ToolNode.invoke.  Each *)
(* tool-call request of the last message has an outcome: "ok", "error"     *)
(* (the tool failed and ToolNode turned the failure into an error tool     *)
(* message) or "raise" (the tool failed and the exception left             *)
(* ToolNode.invoke).  A request naming a tool that is not registered is    *)
(* answered by ToolNode with an error tool message.  When invoke raises,   *)
(* the except branch returns the incoming state.                           *)
(***************************************************************************)
ToolOutcomes(msgs) ==
    [1..Len(Last(msgs).tool_calls) -> {"ok", "error", "raise"}]

ToolResult(call, outcome, registry) ==
    IF call.name \notin SeqToSet(registry) THEN ToolMessage(InvalidToolContent, call.id)
    ELSE IF outcome = "ok" THEN ToolMessage(ToolResultContent, call.id)
    ELSE ToolMessage(ToolErrorContent, call.id)

\* A request fails when its tool is executed and does not return a result.
CallFailed(call, outcome, registry) ==
    call.name \in SeqToSet(registry) /\ outcome # "ok"

InvokeRaises(msgs, o, registry) ==
    \E k \in 1..Len(o) : Last(msgs).tool_calls[k].name \in SeqToSet(registry)
                          /\ o[k] = "raise"

\* A plausible slip: an except branch that reports the failure in a tool
\* message of its own making, which answers no request.
tools_node_orphan(msgs, o, registry) ==
    IF InvokeRaises(msgs, o, registry)
    THEN [raised |-> FALSE, update |-> <<ToolMessage(ToolErrorContent, NoCallId)>>]
    ELSE [raised |-> FALSE,
          update |-> [k \in 1..Len(o) |->
                        ToolResult(Last(msgs).tool_calls[k], o[k], registry)]]

tools_node(msgs, o, registry) ==
    IF InvokeRaises(msgs, o, registry)
    THEN [raised |-> FALSE, update |-> msgs]
    ELSE [raised |-> FALSE,
          update |-> [k \in 1..Len(o) |->
                        ToolResult(Last(msgs).tool_calls[k], o[k], registry)]]

(***************************************************************************)
(* GraphBuilder._construct_graph: the edges out of the chatbot node.  With *)
(* a tools node the conditional edge asks _should_use_tools; without one   *)
(* the chatbot node is followed by END.                                    *)
(***************************************************************************)
HasToolsNode(registry) == registry # <<>>

\* A plausible slip: the chatbot node wired to the tools node in both branches.
AfterChatbotAlwaysTools(msgs, registry) == "AWAITING_TOOL"

AfterChatbot(msgs, registry) ==
    IF HasToolsNode(registry)
    THEN IF should_use_tools(OkState(msgs)) = "tools" THEN "AWAITING_TOOL" ELSE "DONE"
    ELSE "DONE"

Step(node, ok, results) == [node |-> node, ok |-> ok, results |-> results]

(***************************************************************************)
(* SpecRouter: turns of the compiled graph on one thread.                  *)
(***************************************************************************)
\* graph.stream({"messages": [{"role": "user", ...}]}, config): the input is
\* merged into the thread's checkpointed messages and the chatbot node is next.
StartTurn ==
    /\ router \in {"IDLE", "DONE", "RAISED"}
    /\ turns < MaxTurns
    /\ messages' = add_messages(messages, <<DictMessage("user", UserContent)>>)
    /\ router' = "AWAITING_MODEL"
    /\ turns' = turns + 1
    /\ cycles' = 0
    /\ last_step' = Step("start", TRUE, <<>>)
    /\ UNCHANGED <<tools, llm_input>>

ChatbotNode ==
    /\ router = "AWAITING_MODEL"
    /\ \E o \in LLMOutcomes(ModelInput(messages), tools) :
         LET res == chatbot_node(messages, o) IN
         /\ llm_input' = ModelInput(messages)
         /\ last_step' = Step("chatbot", o.ok, <<o>>)
         /\ IF res.raised
            THEN /\ router' = "RAISED"
                 /\ UNCHANGED messages
            ELSE /\ messages' = add_messages(messages, res.update)
                 /\ router' = AfterChatbot(messages', tools)
    /\ UNCHANGED <<tools, turns, cycles>>

ToolsNode ==
    /\ router = "AWAITING_TOOL"
    /\ cycles < MaxCycles
    /\ \E o \in ToolOutcomes(messages) :
         LET res == tools_node(messages, o, tools) IN
         /\ last_step' = Step("tools", ~InvokeRaises(messages, o, tools), o)
         /\ IF res.raised
            THEN /\ router' = "RAISED"
                 /\ UNCHANGED messages
            ELSE /\ messages' = add_messages(messages, res.update)
                 /\ router' = "AWAITING_MODEL"
    /\ cycles' = cycles + 1
    /\ UNCHANGED <<tools, turns, llm_input>>

\* The runtime stops a run that still has a node to execute when its recursion
\* limit is used up (GraphRecursionError leaves graph.stream); neither the graph
\* nor its callers set the limit or catch the error in the graph.  The limit is
\* scaled to MaxCycles tool cycles: the run is stopped when the tools node is due
\* once more.  The checkpoint keeps the messages of the completed steps.
RecursionLimit ==
    /\ router = "AWAITING_TOOL"
    /\ cycles = MaxCycles
    /\ router' = "RAISED"
    /\ last_step' = Step("limit", FALSE, <<>>)
    /\ UNCHANGED <<tools, messages, llm_input, turns, cycles>>

(***************************************************************************)
(* config.py: the configuration.  An absent environment variable and an    *)
(* empty one are both "" (os.getenv gives None or '', both falsy).         *)
(***************************************************************************)
DummyKey == "dummy-key"
TavilyPlaceholder == "your-tavily-api-key-here"
OpenAIPlaceholder == "your-openai-api-key-here"

Envs ==
    [OPENAI_API_KEY : {"", "sk-key", OpenAIPlaceholder},
     TAVILY_API_KEY : {"", "tvly-key", TavilyPlaceholder},
     LANGSMITH_API_KEY : {"", "ls-key"}]

Config(pc, openai, tavily, langsmith, web_search, tracing, has_tools_node) ==
    [pc |-> pc, openai_api_key |-> openai, tavily_api_key |-> tavily,
     langsmith_api_key |-> langsmith, enable_web_search |-> web_search,
     enable_langsmith |-> tracing, tools_node |-> has_tools_node]

\* No configuration has been loaded.
NoConfig == Config("none", "", "", "", FALSE, FALSE, FALSE)

\* ChatbotConfig.from_env, lines 52-71; "failed" stands for the ValueError.
from_env(e) ==
    IF e.OPENAI_API_KEY = "" THEN [NoConfig EXCEPT !.pc = "failed"]
    ELSE Config("from_env",
                e.OPENAI_API_KEY,
                IF e.TAVILY_API_KEY = "" THEN DummyKey ELSE e.TAVILY_API_KEY,
                IF e.LANGSMITH_API_KEY = "" THEN DummyKey ELSE e.LANGSMITH_API_KEY,
                TRUE, TRUE, FALSE)

\* ChatbotConfig.validate, lines 75-81: TRUE, or FALSE for the ValueError.
validate(c) ==
    /\ ~(c.openai_api_key = "" \/ c.openai_api_key = OpenAIPlaceholder)
    /\ ~(c.enable_web_search
          /\ (c.tavily_api_key = "" \/ c.tavily_api_key = TavilyPlaceholder))

NoCore == [turn_count |-> 0, calls |-> 0, raised |-> FALSE, reported |-> 0,
           last_run |-> "none", session |-> "unset"]

NoInterface == [kind |-> "none", max_turns |-> 0, turn_count |-> 0, inputs |-> 0,
                handled |-> 0, running |-> FALSE, last |-> "none"]

AppIdle ==
    /\ env = [OPENAI_API_KEY |-> "", TAVILY_API_KEY |-> "", LANGSMITH_API_KEY |-> ""]
    /\ config = NoConfig
    /\ core = NoCore
    /\ chat_interface = NoInterface

TdIdle ==
    /\ td_state = OkState(<<>>)
    /\ td_history = <<>>
    /\ td_out = ""
    /\ td_out_hist = ""

RouterIdle ==
    /\ tools = <<>>
    /\ messages = <<>>
    /\ router = "IDLE"
    /\ llm_input = <<>>
    /\ last_step = Step("none", TRUE, <<>>)
    /\ turns = 0
    /\ cycles = 0

EmptyStore == [x \in {} |-> x]

WebIdle ==
    /\ web_sessions = EmptyStore
    /\ session_counter = 0
    /\ clock = 0
    /\ chatbot = FALSE
    /\ cookie = EmptyStore
    /\ req = EmptyStore
    /\ threads = EmptyStore
    /\ issued = {}
    /\ appended = EmptyStore
    /\ nreq = 0

\* GraphBuilder.build: the registry holds the search tool, or nothing when web
\* search is disabled or the tool could not be initialised.
InitRouter ==
    /\ AppIdle
    /\ TdIdle
    /\ WebIdle
    /\ tools \in {<<>>, <<SearchTool>>}
    /\ messages = <<>>
    /\ router = "IDLE"
    /\ llm_input = <<>>
    /\ last_step = Step("none", TRUE, <<>>)
    /\ turns = 0
    /\ cycles = 0

NextRouter ==
    \/ StartTurn /\ UNCHANGED <<td_vars, web_vars, app_vars>>
    \/ ChatbotNode /\ UNCHANGED <<td_vars, web_vars, app_vars>>
    \/ ToolsNode /\ UNCHANGED <<td_vars, web_vars, app_vars>>
    \/ RecursionLimit /\ UNCHANGED <<td_vars, web_vars, app_vars>>

SpecRouter == InitRouter /\ [][NextRouter]_vars

(***************************************************************************)
(* SpecNode: the chatbot node applied once to a bounded message list, with *)
(* or without system messages in it.                                       *)
(***************************************************************************)
InitNode ==
    /\ AppIdle
    /\ TdIdle
    /\ WebIdle
    /\ tools \in {<<>>, <<SearchTool>>}
    /\ messages \in Transcripts
    /\ router = "AWAITING_MODEL"
    /\ llm_input = <<>>
    /\ last_step = Step("start", TRUE, <<>>)
    /\ turns = 0
    /\ cycles = 0

NextNode == ChatbotNode /\ UNCHANGED <<td_vars, web_vars, app_vars>>

SpecNode == InitNode /\ [][NextNode]_vars

(***************************************************************************)
(* SpecBuild: LangGraphChatbot.__init__ with the configuration read from   *)
(* the environment, step by step.  config.pc is "failed" when an exception *)
(* left the constructor.                                                   *)
(***************************************************************************)
\* chatbot_core.py, line 27: ChatbotConfig.from_env()
LoadConfig ==
    /\ config.pc = "none"
    /\ config' = from_env(env)
    /\ UNCHANGED tools

\* chatbot_core.py, lines 28-31: config.validate()
ValidateConfig ==
    /\ config.pc = "from_env"
    /\ config' = [config EXCEPT !.pc = IF validate(config) THEN "loaded" ELSE "failed"]
    /\ UNCHANGED tools

\* GraphBuilder.__init__ builds the LangSmithMonitor, whose _setup_langsmith
\* disables tracing when it fails.
InitMonitor ==
    /\ config.pc = "loaded"
    /\ \E setup_ok \in BOOLEAN :
         config' = [config EXCEPT
                       !.pc = "monitor",
                       !.enable_langsmith =
                           IF config.enable_langsmith /\ config.langsmith_api_key # ""
                           THEN setup_ok ELSE config.enable_langsmith]
    /\ UNCHANGED tools

\* GraphBuilder._init_llm: a failure is raised as RuntimeError.
InitLLM ==
    /\ config.pc = "monitor"
    /\ \E llm_ok \in BOOLEAN :
         config' = [config EXCEPT !.pc = IF llm_ok THEN "llm" ELSE "failed"]
    /\ UNCHANGED tools

\* GraphBuilder._init_tools, lines 78-93
init_tools(c, registry, search_ok) ==
    IF ~c.enable_web_search THEN [config |-> c, tools |-> registry]
    ELSE IF search_ok THEN [config |-> c, tools |-> <<SearchTool>>]
    ELSE [config |-> [c EXCEPT !.enable_web_search = FALSE], tools |-> <<>>]

InitTools ==
    /\ config.pc = "llm"
    /\ \E search_ok \in BOOLEAN :
         LET res == init_tools(config, tools, search_ok) IN
         /\ config' = [res.config EXCEPT !.pc = "tools"]
         /\ tools' = res.tools

\* GraphBuilder._construct_graph, line 104, and _compile_graph
ConstructGraph ==
    /\ config.pc = "tools"
    /\ config' = [config EXCEPT !.pc = "built",
                                !.tools_node = config.enable_web_search
                                               /\ HasToolsNode(tools)]
    /\ UNCHANGED tools

BuildFrame ==
    UNCHANGED <<td_vars, web_vars, env, core, chat_interface, messages, router,
                llm_input, last_step, turns, cycles>>

InitBuild ==
    /\ TdIdle
    /\ RouterIdle
    /\ WebIdle
    /\ env \in Envs
    /\ config = NoConfig
    /\ core = NoCore
    /\ chat_interface = NoInterface

NextBuild ==
    \/ LoadConfig /\ BuildFrame
    \/ ValidateConfig /\ BuildFrame
    \/ InitMonitor /\ BuildFrame
    \/ InitLLM /\ BuildFrame
    \/ InitTools /\ BuildFrame
    \/ ConstructGraph /\ BuildFrame

SpecBuild == InitBuild /\ [][NextBuild]_vars

\* C26: when TAVILY_API_KEY is absent from the environment, the built
\* chatbot has web search disabled, no search tool in the registry and no
\* tools node in its graph.
C26_NoKeyNoWebSearch ==
    (config.pc = "built" /\ env.TAVILY_API_KEY = "") =>
        /\ ~config.enable_web_search
        /\ tools = <<>>
        /\ ~config.tools_node

(***************************************************************************)
(* langsmith_integration.py: the tracing calls.  A call has an outcome:    *)
(* "off" (tracing is disabled), "ok" (the run was recorded) or "fail" (the *)
(* tracing library raised).  A call returns [raised, logged].              *)
(***************************************************************************)
TraceOutcomes(enabled) == IF enabled THEN {"ok", "fail"} ELSE {"off"}

Traced(raised, logged) == [raised |-> raised, logged |-> logged]

\* A plausible slip: the call without its try/except lets the failure out.
log_node_execution_unguarded(enabled, t) ==
    IF ~enabled THEN Traced(FALSE, FALSE)
    ELSE IF t = "ok" THEN Traced(FALSE, TRUE)
    ELSE Traced(TRUE, FALSE)

\* lines 79-100
log_node_execution(enabled, t) ==
    IF ~enabled THEN Traced(FALSE, FALSE)
    ELSE IF t = "ok" THEN Traced(FALSE, TRUE)
    ELSE Traced(FALSE, FALSE)

\* lines 125-152
log_conversation_turn(enabled, t) ==
    IF ~enabled THEN Traced(FALSE, FALSE)
    ELSE IF t = "ok" THEN Traced(FALSE, TRUE)
    ELSE Traced(FALSE, FALSE)

\* lines 53-77: the session id when the trace was started, None otherwise.
start_trace(enabled, t) ==
    IF ~enabled THEN [raised |-> FALSE, session |-> "None"]
    ELSE IF t = "ok" THEN [raised |-> FALSE, session |-> "session_id"]
    ELSE [raised |-> FALSE, session |-> "None"]

\* graph_builder.py, lines 142-200, with its three tracing calls: ts[1] at the
\* start, ts[2] at the end, ts[3] in the except branch.
chatbot_node_with_monitoring(msgs, o, enabled, ts) ==
    LET start == log_node_execution(enabled, ts[1])
        end == log_node_execution(enabled, ts[2])
        error == log_node_execution(enabled, ts[3])
    IN  IF ~start.raised /\ o.ok /\ ~end.raised THEN chatbot_node(msgs, o)
        ELSE IF error.raised THEN [raised |-> TRUE, update |-> <<>>]
        ELSE chatbot_node(msgs, LLMFail)

\* graph_builder.py, lines 202-237, with its three tracing calls.
tools_node_with_monitoring(msgs, o, registry, enabled, ts) ==
    LET start == log_node_execution(enabled, ts[1])
        end == log_node_execution(enabled, ts[2])
        error == log_node_execution(enabled, ts[3])
    IN  IF ~start.raised /\ ~InvokeRaises(msgs, o, registry) /\ ~end.raised
        THEN tools_node(msgs, o, registry)
        ELSE IF error.raised THEN [raised |-> TRUE, update |-> <<>>]
        ELSE [raised |-> FALSE, update |-> msgs]

(***************************************************************************)
(* SpecTrace: sessions and turns of a built chatbot with the tracing calls *)
(* of the nodes, of start_session and of the turn made explicit.           *)
(***************************************************************************)
\* chatbot_core.py, lines 79-89
StartSession ==
    /\ router \in {"IDLE", "DONE", "RAISED"}
    /\ \E t \in TraceOutcomes(config.enable_langsmith) :
         LET res == start_trace(config.enable_langsmith, t) IN
         core' = [core EXCEPT !.session = res.session,
                              !.raised = res.raised,
                              !.turn_count = 0]
    /\ UNCHANGED <<env, config, chat_interface, router_vars>>

\* chatbot_core.py, lines 123-134: the turn is traced, then the graph is run.
TracedStartTurn ==
    /\ turns < MaxTracedTurns
    /\ \E t \in TraceOutcomes(config.enable_langsmith) :
         IF log_conversation_turn(config.enable_langsmith, t).raised
         THEN /\ router \in {"IDLE", "DONE", "RAISED"}
              /\ turns < MaxTurns
              /\ router' = "RAISED"
              /\ turns' = turns + 1
              /\ last_step' = Step("trace", FALSE, <<>>)
              /\ UNCHANGED <<tools, messages, llm_input, cycles>>
         ELSE StartTurn
    /\ core' = [core EXCEPT !.turn_count = core.turn_count + 1]
    /\ UNCHANGED <<env, config, chat_interface>>

TracedChatbotNode ==
    /\ router = "AWAITING_MODEL"
    /\ \E o \in LLMOutcomes(ModelInput(messages), tools),
          ts \in [1..3 -> TraceOutcomes(config.enable_langsmith)] :
         LET res == chatbot_node_with_monitoring(messages, o,
                                                 config.enable_langsmith, ts) IN
         /\ llm_input' = ModelInput(messages)
         /\ last_step' = Step("chatbot", o.ok, <<o, ts>>)
         /\ IF res.raised
            THEN /\ router' = "RAISED"
                 /\ UNCHANGED messages
            ELSE /\ messages' = add_messages(messages, res.update)
                 /\ router' = AfterChatbot(messages', tools)
    /\ UNCHANGED <<tools, turns, cycles, app_vars>>

TracedToolsNode ==
    /\ router = "AWAITING_TOOL"
    /\ cycles < MaxCycles
    /\ \E o \in ToolOutcomes(messages),
          ts \in [1..3 -> TraceOutcomes(config.enable_langsmith)] :
         LET res == tools_node_with_monitoring(messages, o, tools,
                                               config.enable_langsmith, ts) IN
         /\ last_step' = Step("tools", ~InvokeRaises(messages, o, tools), <<o, ts>>)
         /\ IF res.raised
            THEN /\ router' = "RAISED"
                 /\ UNCHANGED messages
            ELSE /\ messages' = add_messages(messages, res.update)
                 /\ router' = "AWAITING_MODEL"
    /\ cycles' = cycles + 1
    /\ UNCHANGED <<tools, turns, llm_input, app_vars>>

\* A chatbot built by LangGraphChatbot.__init__, tracing enabled or not.
InitTrace ==
    /\ TdIdle
    /\ WebIdle
    /\ env = [OPENAI_API_KEY |-> "sk-key", TAVILY_API_KEY |-> "tvly-key",
              LANGSMITH_API_KEY |-> "ls-key"]
    /\ tools \in {<<>>, <<SearchTool>>}
    /\ \E tracing \in BOOLEAN :
         config = Config("built", "sk-key", "tvly-key", "ls-key",
                         tools # <<>>, tracing, HasToolsNode(tools))
    /\ core = NoCore
    /\ chat_interface = NoInterface
    /\ messages = <<>>
    /\ router = "IDLE"
    /\ llm_input = <<>>
    /\ last_step = Step("none", TRUE, <<>>)
    /\ turns = 0
    /\ cycles = 0

NextTrace ==
    \/ StartSession /\ UNCHANGED <<td_vars, web_vars>>
    \/ TracedStartTurn /\ UNCHANGED <<td_vars, web_vars>>
    \/ TracedChatbotNode /\ UNCHANGED <<td_vars, web_vars>>
    \/ TracedToolsNode /\ UNCHANGED <<td_vars, web_vars>>
    \/ RecursionLimit /\ UNCHANGED <<td_vars, web_vars, app_vars>>

SpecTrace == InitTrace /\ [][NextTrace]_vars

\* C21: tracing is best-effort.  Whether the tracing calls of a step succeed,
\* fail or are disabled, the step appends what the node without tracing
\* appends and routes as it routes; start_session and the start of a turn do
\* not raise; a run is only ever stopped by the recursion limit.
C21_TracingBestEffort ==
    [][/\ (router = "AWAITING_MODEL") =>
            LET res == chatbot_node(messages, last_step'.results[1]) IN
            /\ messages' = add_messages(messages, res.update)
            /\ router' = AfterChatbot(messages', tools)
       /\ (router = "AWAITING_TOOL" /\ cycles' = cycles + 1) =>
            LET res == tools_node(messages, last_step'.results[1], tools) IN
            /\ messages' = add_messages(messages, res.update)
            /\ router' = "AWAITING_MODEL"
       /\ (turns' = turns + 1) =>
            /\ messages' = add_messages(messages, <<DictMessage("user", UserContent)>>)
            /\ router' = "AWAITING_MODEL"
       /\ (router' = "RAISED" /\ router # "RAISED") => last_step'.node = "limit"
       /\ ~core'.raised]_vars

\* A completed model step whose start trace failed, and a session whose
\* trace could not be started.
C21_Witness ==
    /\ config.enable_langsmith
    /\ core.session = "None"
    /\ last_step.node = "chatbot"
    /\ last_step.results[1].ok
    /\ last_step.results[2][1] = "fail"
    /\ router = "DONE"

(***************************************************************************)
(* chatbot_core.py: stream_response.  The graph run either completes or    *)
(* raises (the recursion limit, a checkpointer asked to run without a      *)
(* thread id, any other exception of graph.stream).                        *)
(***************************************************************************)
GraphRuns == {"completes", "raises"}

\* A plausible slip: the body without its except branch.
stream_response_unguarded(c, g, enabled, t) ==
    LET failed == log_conversation_turn(enabled, t).raised \/ g = "raises" IN
    [c EXCEPT !.turn_count = @ + 1,
              !.calls = @ + 1,
              !.last_run = IF failed THEN "failed" ELSE "completed",
              !.raised = failed]

\* lines 119-166
stream_response(c, g, enabled, t) ==
    LET failed == log_conversation_turn(enabled, t).raised \/ g = "raises" IN
    [c EXCEPT !.turn_count = @ + 1,
              !.calls = @ + 1,
              !.last_run = IF failed THEN "failed" ELSE "completed",
              !.reported = IF failed THEN @ + 1 ELSE @,
              !.raised = FALSE]

(***************************************************************************)
(* chat_interface.py.  The inputs are a text, the empty line, a blank      *)
(* line and two exit commands; strip and lower do to them what str.strip   *)
(* and str.lower do.                                                       *)
(***************************************************************************)
UserInputs == {"hello", "", " ", "quit", "Q"}

strip(input) == IF input = " " THEN "" ELSE input

lower(input) == IF input = "Q" THEN "q" ELSE input

\* lines 86-88
should_exit(input) == lower(input) \in {"quit", "exit", "q"}

\* lines 30-63, one pass of the loop of run_interactive on a read input.  The
\* result says whether the stream handler is called.
run_interactive(ci, input) ==
    LET user_input == strip(input)
        read == [ci EXCEPT !.inputs = @ + 1, !.last = input] IN
    IF should_exit(user_input)
    THEN [ci |-> [read EXCEPT !.running = FALSE], handle |-> FALSE]
    ELSE IF strip(user_input) = ""
    THEN [ci |-> read, handle |-> FALSE]
    ELSE [ci |-> [read EXCEPT !.turn_count = @ + 1,
                              !.handled = @ + 1,
                              !.running = ci.turn_count + 1 < ci.max_turns],
          handle |-> TRUE]

\* A plausible slip: send_message without its check of max_turns.
send_message_unbounded(ci, input) ==
    [ci |-> [ci EXCEPT !.inputs = @ + 1, !.last = input,
                       !.turn_count = @ + 1, !.handled = @ + 1],
     handle |-> TRUE]

\* lines 131-149
send_message(ci, input) ==
    LET read == [ci EXCEPT !.inputs = @ + 1, !.last = input] IN
    IF ci.turn_count >= ci.max_turns
    THEN [ci |-> read, handle |-> FALSE]
    ELSE [ci |-> [read EXCEPT !.turn_count = @ + 1, !.handled = @ + 1],
          handle |-> TRUE]

(***************************************************************************)
(* SpecCli: a built chatbot behind a chat interface whose stream handler   *)
(* is stream_response, and direct calls of stream_response.                *)
(***************************************************************************)
\* _process_user_input (lines 90-96): the handler is called; what it raises
\* is caught here.
Handle(handle) ==
    IF handle
    THEN \E g \in GraphRuns, t \in TraceOutcomes(config.enable_langsmith) :
            core' = stream_response(core, g, config.enable_langsmith, t)
    ELSE UNCHANGED core

StreamResponse ==
    /\ core.calls < MaxInputs
    /\ ~chat_interface.running
    /\ Handle(TRUE)
    /\ UNCHANGED chat_interface

RunInteractive ==
    /\ chat_interface.kind = "interactive"
    /\ ~chat_interface.running
    /\ chat_interface.turn_count < chat_interface.max_turns
    /\ chat_interface' = [chat_interface EXCEPT !.running = TRUE]
    /\ UNCHANGED core

InteractiveInput ==
    /\ chat_interface.running
    /\ chat_interface.inputs < MaxInputs
    /\ \E input \in UserInputs :
         LET res == run_interactive(chat_interface, input) IN
         /\ chat_interface' = res.ci
         /\ Handle(res.handle)

\* KeyboardInterrupt or EOFError while the input is read.
Interrupt ==
    /\ chat_interface.running
    /\ chat_interface' = [chat_interface EXCEPT !.running = FALSE]
    /\ UNCHANGED core

SendMessage ==
    /\ chat_interface.kind = "non_interactive"
    /\ chat_interface.inputs < MaxInputs
    /\ \E input \in UserInputs :
         LET res == send_message(chat_interface, input) IN
         /\ chat_interface' = res.ci
         /\ Handle(res.handle)

\* reset_turn_count (lines 119-121), also through clear_history.
ResetTurnCount ==
    /\ ~chat_interface.running
    /\ chat_interface.turn_count > 0
    /\ chat_interface' = [chat_interface EXCEPT !.turn_count = 0]
    /\ UNCHANGED core

CliFrame == UNCHANGED <<td_vars, router_vars, web_vars, env, config>>

InitCli ==
    /\ TdIdle
    /\ RouterIdle
    /\ WebIdle
    /\ env = [OPENAI_API_KEY |-> "sk-key", TAVILY_API_KEY |-> "tvly-key",
              LANGSMITH_API_KEY |-> "ls-key"]
    /\ \E tracing \in BOOLEAN :
         config = Config("built", "sk-key", "tvly-key", "ls-key", FALSE, tracing, FALSE)
    /\ core = NoCore
    /\ \E kind \in {"interactive", "non_interactive"} :
         chat_interface = [NoInterface EXCEPT !.kind = kind,
                                              !.max_turns = MaxConversationTurns]

NextCli ==
    \/ StreamResponse /\ CliFrame
    \/ RunInteractive /\ CliFrame
    \/ InteractiveInput /\ CliFrame
    \/ Interrupt /\ CliFrame
    \/ SendMessage /\ CliFrame
    \/ ResetTurnCount /\ CliFrame

SpecCli == InitCli /\ [][NextCli]_vars

\* C25: stream_response never raises to its caller; a failure of the graph
\* run or of monitoring during the turn is caught and reported, and the next
\* call is served like any other.
C25_StreamResponseNeverRaises ==
    [][(core'.calls = core.calls + 1) =>
          /\ ~core'.raised
          /\ core'.turn_count = core.turn_count + 1
          /\ core'.reported = core.reported
                                + (IF core'.last_run = "failed" THEN 1 ELSE 0)]_vars

\* A call that completed after a call whose graph run raised.
C25_Witness ==
    /\ core.calls >= 2
    /\ core.reported >= 1
    /\ core.last_run = "completed"

IsInputStep(ci, next) == next.inputs = ci.inputs + 1

NotProcessed(ci, next) ==
    next.turn_count = ci.turn_count /\ next.handled = ci.handled

\* C30: the chat interface never processes more than max_turns inputs:
\* turn_count is at most max_turns, empty inputs and exit commands are not
\* counted and do not reach the stream handler, and at turn_count = max_turns
\* no input reaches the stream handler until the count is reset.
C30_AtMostMaxTurns ==
    [][/\ chat_interface'.turn_count <= chat_interface'.max_turns
       /\ IsInputStep(chat_interface, chat_interface') =>
            /\ (strip(chat_interface'.last) = ""
                  \/ should_exit(strip(chat_interface'.last)))
                 => NotProcessed(chat_interface, chat_interface')
            /\ (chat_interface.turn_count = chat_interface.max_turns)
                 => NotProcessed(chat_interface, chat_interface')]_vars

\* C30, amended: turn_count is at most max_turns; run_interactive neither
\* counts nor hands on empty inputs and exit commands, while send_message
\* counts and hands on every message, these included, as long as turn_count
\* is below max_turns; at turn_count = max_turns no input reaches the
\* stream handler until the count is reset.
C30_AtMostMaxTurnsAmended ==
    [][/\ chat_interface'.turn_count <= chat_interface'.max_turns
       /\ IsInputStep(chat_interface, chat_interface') =>
            /\ (/\ chat_interface.kind = "interactive"
                /\ (strip(chat_interface'.last) = ""
                      \/ should_exit(strip(chat_interface'.last))))
                 => NotProcessed(chat_interface, chat_interface')
            /\ (/\ chat_interface.kind = "non_interactive"
                /\ chat_interface.turn_count < chat_interface.max_turns)
                 => /\ chat_interface'.turn_count = chat_interface.turn_count + 1
                    /\ chat_interface'.handled = chat_interface.handled + 1
            /\ (chat_interface.turn_count = chat_interface.max_turns)
                 => NotProcessed(chat_interface, chat_interface')]_vars

\* send_message refused an exit command at the cap after handing on others.
C30_Witness ==
    /\ chat_interface.kind = "non_interactive"
    /\ chat_interface.turn_count = chat_interface.max_turns
    /\ chat_interface.last = "quit"
    /\ chat_interface.inputs = chat_interface.handled + 1

(***************************************************************************)
(* SpecDecision: _should_use_tools applied to a graph state, and to the    *)
(* same state with a history prepended to its messages.                    *)
(***************************************************************************)
WithHistory(history, state) ==
    IF state.kind = "ok" THEN OkState(history \o state.messages) ELSE state

InitDecision ==
    /\ AppIdle
    /\ RouterIdle
    /\ WebIdle
    /\ td_state \in DecisionStates
    /\ td_history \in Transcripts
    /\ td_out = ""
    /\ td_out_hist = ""

Decide ==
    /\ td_out = ""
    /\ td_out' = should_use_tools(td_state)
    /\ td_out_hist' = should_use_tools(WithHistory(td_history, td_state))
    /\ UNCHANGED <<td_state, td_history>>

NextDecision == Decide /\ UNCHANGED <<router_vars, web_vars, app_vars>>

SpecDecision == InitDecision /\ [][NextDecision]_vars


(***************************************************************************)
(* Claims about the Turn Decision (SpecDecision).                          *)
(***************************************************************************)
DeclaresToolCalls(m) == m.type = "ai" /\ m.tool_calls # <<>>

\* C1: _should_use_tools never raises (its result is always a decision) and
\* answers "tools" exactly when the state holds a non-empty message list whose
\* last message declares at least one tool-call request; an empty list, a last
\* message without tool calls and a malformed state all give "end".
C1_TurnDecision ==
    td_out # "" =>
        /\ td_out \in {"tools", "end"}
        /\ td_out = "tools" <=>
              /\ td_state.kind = "ok"
              /\ td_state.messages # <<>>
              /\ DeclaresToolCalls(Last(td_state.messages))

C1_Witness ==
    /\ td_out = "tools"
    /\ Len(td_state.messages) > 1

\* C2: for a fixed last message the decision does not change when a history is
\* prepended to the transcript.
C2_LastMessageOnly ==
    (td_out # "" /\ td_state.kind = "ok" /\ td_state.messages # <<>>)
        => td_out_hist = td_out

C2_Witness ==
    /\ td_out = "end"
    /\ td_state.kind = "ok"
    /\ td_state.messages # <<>>
    /\ \E i \in 1..Len(td_history) : DeclaresToolCalls(td_history[i])

(***************************************************************************)
(* Claims about the router (SpecRouter).                                   *)
(***************************************************************************)
\* The last message before position i that is not a tool message (0: none).
PrecedingNonTool(msgs, i) ==
    CHOOSE j \in 0..(i - 1) :
        /\ j = 0 \/ msgs[j].type # "tool"
        /\ \A k \in (j + 1)..(i - 1) : msgs[k].type = "tool"

AnswersRequest(msgs, i) ==
    LET j == PrecedingNonTool(msgs, i) IN
    /\ j > 0
    /\ msgs[j].type = "ai"
    /\ \E k \in 1..Len(msgs[j].tool_calls) :
          msgs[j].tool_calls[k].id = msgs[i].tool_call_id

\* C3: every tool message of the thread's transcript is preceded, skipping only
\* other tool messages, by an assistant message that declares the tool-call
\* request it answers.
C3_ToolMessagesAnswerRequests ==
    \A i \in 1..Len(messages) :
        messages[i].type = "tool" => AnswersRequest(messages, i)

C3_Witness ==
    /\ \E i \in 1..Len(messages) : messages[i].type = "tool"
    /\ last_step.node = "tools"
    /\ ~last_step.ok
    /\ turns > 1

\* C9: when the model invocation fails, the chatbot node's output is the fixed
\* fallback assistant message, the router is in DONE (not in the tool node) and
\* no exception has left the node.
C9_ModelFailureFallback ==
    (last_step.node = "chatbot" /\ ~last_step.ok) =>
        /\ router = "DONE"
        /\ Last(messages).type = "ai"
        /\ Last(messages).content = FallbackContent
        /\ Last(messages).tool_calls = <<>>

C9_Witness ==
    /\ last_step.node = "chatbot"
    /\ ~last_step.ok
    /\ tools # <<>>
    /\ cycles > 0
    /\ router = "DONE"

\* The assistant message whose tool-call requests the tools node last ran.
LastRequesting(msgs) ==
    CHOOSE j \in 1..Len(msgs) :
        /\ DeclaresToolCalls(msgs[j])
        /\ \A k \in (j + 1)..Len(msgs) : ~DeclaresToolCalls(msgs[k])

FailedRequests(msgs, o, registry) ==
    LET calls == msgs[LastRequesting(msgs)].tool_calls IN
    {k \in 1..Len(calls) : CallFailed(calls[k], o[k], registry)}

\* C10: after the tools node ran a tool-call request whose execution failed, the
\* transcript holds a tool message for that request carrying the failure
\* description, and the router is back in AWAITING_MODEL.
C10_ToolFailureReported ==
    (last_step.node = "tools"
        /\ FailedRequests(messages, last_step.results, tools) # {}) =>
        /\ router = "AWAITING_MODEL"
        /\ \A k \in FailedRequests(messages, last_step.results, tools) :
              \E i \in 1..Len(messages) :
                  /\ messages[i].type = "tool"
                  /\ messages[i].tool_call_id
                        = messages[LastRequesting(messages)].tool_calls[k].id
                  /\ messages[i].content = ToolErrorContent

\* The tool-call requests the tools node last ran that name no registered tool.
UnregisteredRequests(msgs, registry) ==
    LET calls == msgs[LastRequesting(msgs)].tool_calls IN
    {k \in 1..Len(calls) : calls[k].name \notin SeqToSet(registry)}

\* C11: a tool-call request naming a tool that is not in the registry never
\* takes the router to the tool node, and the turn is in DONE with an assistant
\* message as its output instead of being back in AWAITING_MODEL.
C11_UnknownToolEndsTurn ==
    /\ router = "AWAITING_TOOL" =>
          \A k \in 1..Len(Last(messages).tool_calls) :
              Last(messages).tool_calls[k].name \in SeqToSet(tools)
    /\ (last_step.node = "tools" /\ UnregisteredRequests(messages, tools) # {}) =>
          /\ router = "DONE"
          /\ Last(messages).type = "ai"
          /\ Last(messages).tool_calls = <<>>

\* C12: after the tools node ran, the transcript ends with exactly one tool
\* message per tool-call request of the last requesting assistant message, in
\* request order, and the router is back in AWAITING_MODEL.
C12_OneResultPerRequest ==
    last_step.node = "tools" =>
        LET j == LastRequesting(messages)
            calls == messages[j].tool_calls
        IN /\ router = "AWAITING_MODEL"
           /\ Len(messages) = j + Len(calls)
           /\ \A k \in 1..Len(calls) :
                 /\ messages[j + k].type = "tool"
                 /\ messages[j + k].tool_call_id = calls[k].id

\* C13: with an empty tool registry the router is never in AWAITING_TOOL, no
\* tool cycle happens, and every model invocation ends the turn in DONE with
\* the model's reply appended as the output.
C13_NoToolsOneInvocation ==
    /\ [](tools = <<>> => (router # "AWAITING_TOOL" /\ cycles = 0))
    /\ [][(tools = <<>> /\ router = "AWAITING_MODEL" /\ router' # router) =>
            /\ router' = "DONE"
            /\ last_step'.ok =>
                  messages' = Append(messages,
                                [AIMessage(last_step'.results[1].content, <<>>)
                                    EXCEPT !.id = Len(messages) + 1])]_vars

C13_Witness ==
    /\ tools = <<>>
    /\ turns = MaxTurns
    /\ router = "DONE"
    /\ last_step.node = "chatbot"
    /\ last_step.ok
    /\ Last(messages).content = ReplyContent

\* C16: when the cycle cap stops a turn, the turn is in DONE with a diagnostic
\* assistant message as its output, not ended by an error.
C16_CycleCapCompletesTurn ==
    last_step.node = "limit" =>
        /\ router = "DONE"
        /\ Last(messages).type = "ai"
        /\ Last(messages).tool_calls = <<>>

SystemCount(msgs) == Cardinality({i \in 1..Len(msgs) : msgs[i].type = "system"})

\* C14: the model's input is the message list with the system instruction
\* prepended when the list holds no system message, and the list itself when it
\* holds one; the node adds no second system message to its input and none to
\* the stored messages.
C14_SystemInstructionOnce ==
    last_step.node = "chatbot" =>
        LET before == SubSeq(messages, 1, Len(messages) - 1) IN
        /\ ~HasSystemMessage(before) =>
              llm_input = <<SystemMessage(SystemPrompt)>> \o before
        /\ HasSystemMessage(before) => llm_input = before
        /\ SystemCount(llm_input) = (IF HasSystemMessage(before)
                                      THEN SystemCount(before) ELSE 1)
        /\ SystemCount(messages) = SystemCount(before)

C14_Witness ==
    /\ last_step.node = "chatbot"
    /\ last_step.ok
    /\ Len(messages) = MaxLen + 1
    /\ messages[1].type = "human"
    /\ messages[2].type = "system"
    /\ llm_input = SubSeq(messages, 1, MaxLen)

IsPrefix(a, b) == Len(a) <= Len(b) /\ SubSeq(b, 1, Len(a)) = a

HumanCount(msgs) == Cardinality({i \in 1..Len(msgs) : msgs[i].type = "human"})

\* C19: every model invocation receives, after the system instruction, all the
\* messages checkpointed on the thread so far, in order: one user message per
\* turn started, the new one included.  A turn starts by appending its user
\* message, and no step removes or reorders a checkpointed message.
C19_ConversationMemory ==
    /\ [](last_step.node = "chatbot" =>
            /\ Tail(llm_input) = SubSeq(messages, 1, Len(messages) - 1)
            /\ HumanCount(llm_input) = turns)
    /\ [][/\ IsPrefix(messages, messages')
          /\ turns' # turns =>
                /\ Len(messages') = Len(messages) + 1
                /\ Last(messages').type = "human"
                /\ Last(messages').content = UserContent]_vars

C19_Witness ==
    /\ turns = MaxTurns
    /\ last_step.node = "chatbot"
    /\ cycles > 0
    /\ HumanCount(llm_input) = MaxTurns
    /\ \E i \in 1..Len(llm_input) : llm_input[i].type = "tool"


(***************************************************************************)
(* web_ui.py: the session store and the request handlers.                  *)
(*                                                                         *)
(* Session identifiers are strings built from numbers; a tuple of those    *)
(* numbers stands for the string.  "web_session_<t>_<n>" is <<t, n>> and   *)
(* "web_session_<t>" is <<t>>: two identifiers are equal as strings        *)
(* exactly when their tuples are equal.                                    *)
(***************************************************************************)
NoHeader == <<>>                \* no X-Session-ID header
NoTime == -1                    \* an entry without a 'last_activity' key

\* create_new_session, line 35
CreatedId(t, n) == <<t, n>>
\* new_session, line 185
NewSessionId(t) == <<t>>

\* What a caller sends as X-Session-ID: nothing, an identifier some creation
\* produced (in the store or not), or a string of its own making, here the one
\* the next create_new_session would build.
Headers ==
    {NoHeader} \cup issued \cup {CreatedId(clock, session_counter + 1)}

Handlers == {1, 2}              \* the server's handler threads
Clients == {1, 2}               \* the browsers, each with its Flask session cookie

Entry(msgs, created_at, last_activity) ==
    [messages |-> msgs, created_at |-> created_at, last_activity |-> last_activity]

\* An entry of a session's 'messages' list (its 'timestamp' is left out); rid
\* names the request that wrote it.
WebMessage(role, content, rid) == [role |-> role, content |-> content, rid |-> rid]

WithEntry(store, k, e) ==
    [x \in DOMAIN store \cup {k} |-> IF x = k THEN e ELSE store[x]]

Without(store, k) == [x \in DOMAIN store \ {k} |-> store[x]]

\* A plausible slip: the list rebuilt from the new message alone.
ListAppendOverwrite(list, m) == <<m>>

\* list.append
ListAppend(list, m) == Append(list, m)

\* A plausible slip: a new session for every request, known header or not.
NeedsNewSessionAlways(header, store) == TRUE

\* chat, line 92: not session_id or session_id not in web_sessions
NeedsNewSession(header, store) ==
    header = NoHeader \/ header \notin DOMAIN store

(***************************************************************************)
(* chatbot.graph.stream on a thread: every run of one turn, as the set of  *)
(* [messages, events, raised] it can end with.  An event is the update a   *)
(* node returned.  A run that needs more than n tool cycles is stopped by  *)
(* the recursion limit: graph.stream raises, and the thread keeps the      *)
(* messages of the completed steps.                                        *)
(***************************************************************************)
RECURSIVE TurnRuns(_, _, _, _, _)
TurnRuns(msgs, state, events, n, registry) ==
    IF state = "DONE" THEN {[messages |-> msgs, events |-> events, raised |-> FALSE]}
    ELSE IF state = "AWAITING_MODEL"
    THEN UNION {
            LET res == chatbot_node(msgs, o)
                after == add_messages(msgs, res.update)
            IN TurnRuns(after, AfterChatbot(after, registry),
                        Append(events, res.update), n, registry)
            : o \in LLMOutcomes(ModelInput(msgs), registry)}
    ELSE IF n = 0 THEN {[messages |-> msgs, events |-> events, raised |-> TRUE]}
    ELSE UNION {
            LET res == tools_node(msgs, o, registry)
                after == add_messages(msgs, res.update)
            IN TurnRuns(after, "AWAITING_MODEL", Append(events, res.update),
                        n - 1, registry)
            : o \in ToolOutcomes(msgs)}

ThreadMessages(store, thread_id) ==
    IF thread_id \in DOMAIN store THEN store[thread_id] ELSE <<>>

(***************************************************************************)
(* chat, lines 109-135: the response collected from the streamed events.   *)
(***************************************************************************)
RECURSIVE ResponseParts(_)
ResponseParts(events) ==
    IF events = <<>> THEN <<>>
    ELSE IF Head(events) = <<>> THEN ResponseParts(Tail(events))
    ELSE <<Last(Head(events)).content>> \o ResponseParts(Tail(events))

RECURSIVE Join(_, _)
Join(parts, sep) ==
    IF parts = <<>> THEN ""
    ELSE IF Len(parts) = 1 THEN parts[1]
    ELSE parts[1] \o sep \o Join(Tail(parts), sep)

SorryContent == "I'm sorry, I couldn't generate a response."

FullResponse(events) ==
    LET response_parts == ResponseParts(events) IN
    IF response_parts # <<>> /\ Last(response_parts) # ""
    THEN Last(response_parts)
    ELSE IF response_parts # <<>> THEN Join(response_parts, "\n")
    ELSE SorryContent

(***************************************************************************)
(* The requests.  Each handler thread runs one request at a time; a step   *)
(* of a request is one action, and the steps of two requests interleave.   *)
(***************************************************************************)
IdleReq ==
    [kind |-> "idle", pc |-> "idle", rid |-> 0, client |-> 0,
     header |-> NoHeader, message |-> "", sid |-> NoHeader, tmp |-> 0,
     known |-> FALSE, created |-> FALSE, fresh |-> TRUE,
     full_response |-> "", status |-> 0, body |-> <<>>]

Set(r, new) == req' = [req EXCEPT ![r] = new]

\* A request is taken by the first handler thread that is not running one; the
\* thread's record keeps the response of its previous request until then.
Free(r) ==
    /\ req[r].pc \in {"idle", "done"}
    /\ \A q \in Handlers : q < r => req[q].pc \notin {"idle", "done"}

Fail500(r) == Set(r, [req[r] EXCEPT !.pc = "done", !.status = 500])

\* chat, lines 80-90: an empty message is refused; otherwise the chatbot is
\* initialised if needed and the header is read.
BeginChat(r) ==
    /\ Free(r)
    /\ nreq < MaxRequests
    /\ nreq' = nreq + 1
    /\ \/ /\ Set(r, [IdleReq EXCEPT !.kind = "chat", !.pc = "done", !.rid = nreq',
                                       !.status = 400])
          /\ UNCHANGED chatbot
       \/ \E h \in Headers :
            /\ Set(r, [IdleReq EXCEPT !.kind = "chat", !.pc = "resolve", !.rid = nreq',
                                      !.header = h, !.message = UserContent])
            /\ chatbot' = TRUE
    /\ UNCHANGED <<web_sessions, session_counter, clock, cookie, threads, issued, appended>>

\* chat, line 92
ChatResolve(r) ==
    /\ req[r].pc = "resolve"
    /\ IF NeedsNewSession(req[r].header, web_sessions)
       THEN Set(r, [req[r] EXCEPT !.pc = "inc_read",
                                  !.known = req[r].header \in DOMAIN web_sessions])
       ELSE Set(r, [req[r] EXCEPT !.pc = "touch", !.sid = req[r].header,
                                  !.known = req[r].header \in DOMAIN web_sessions])
    /\ UNCHANGED <<web_sessions, session_counter, clock, chatbot, cookie, threads,
                   issued, appended, nreq>>

\* create_new_session, line 34: session_counter += 1 reads the global ...
CreateIncRead(r) ==
    /\ req[r].pc = "inc_read"
    /\ Set(r, [req[r] EXCEPT !.pc = "inc_write", !.tmp = session_counter])
    /\ UNCHANGED <<web_sessions, session_counter, clock, chatbot, cookie, threads,
                   issued, appended, nreq>>

\* ... and writes it back
CreateIncWrite(r) ==
    /\ req[r].pc = "inc_write"
    /\ session_counter' = req[r].tmp + 1
    /\ Set(r, [req[r] EXCEPT !.pc = "mkid", !.tmp = 0])
    /\ UNCHANGED <<web_sessions, clock, chatbot, cookie, threads, issued, appended, nreq>>

\* create_new_session, line 35: the identifier from the clock and the global counter
CreateMakeId(r) ==
    /\ req[r].pc = "mkid"
    /\ Set(r, [req[r] EXCEPT !.pc = "store", !.sid = CreatedId(clock, session_counter)])
    /\ UNCHANGED <<web_sessions, session_counter, clock, chatbot, cookie, threads,
                   issued, appended, nreq>>

\* create_new_session, lines 38-45: start_session, then the store entry
CreateStore(r) ==
    /\ req[r].pc = "store"
    /\ web_sessions' = WithEntry(web_sessions, req[r].sid, Entry(<<>>, clock, clock))
    /\ appended' = WithEntry(appended, req[r].sid, {})
    /\ issued' = issued \cup {req[r].sid}
    /\ Set(r, [req[r] EXCEPT !.pc = "touch", !.created = TRUE,
                             !.fresh = req[r].sid \notin issued])
    /\ UNCHANGED <<session_counter, clock, chatbot, cookie, threads, nreq>>

\* A plausible slip: the activity time refreshed on every session of the store.
ChatTouchAll(r) ==
    /\ req[r].pc = "touch"
    /\ IF req[r].sid \in DOMAIN web_sessions
       THEN /\ web_sessions' = [s \in DOMAIN web_sessions |->
                                   [web_sessions[s] EXCEPT !.last_activity = clock]]
            /\ Set(r, [req[r] EXCEPT !.pc = "append_user"])
       ELSE /\ Fail500(r)
            /\ UNCHANGED web_sessions
    /\ UNCHANGED <<session_counter, clock, chatbot, cookie, threads, issued, appended, nreq>>

\* chat, line 97; a missing entry raises KeyError, reported by line 157
ChatTouch(r) ==
    /\ req[r].pc = "touch"
    /\ IF req[r].sid \in DOMAIN web_sessions
       THEN /\ web_sessions' = [web_sessions EXCEPT ![req[r].sid].last_activity = clock]
            /\ Set(r, [req[r] EXCEPT !.pc = "append_user"])
       ELSE /\ Fail500(r)
            /\ UNCHANGED web_sessions
    /\ UNCHANGED <<session_counter, clock, chatbot, cookie, threads, issued, appended, nreq>>

\* chat, lines 100-104
ChatAppendUser(r) ==
    /\ req[r].pc = "append_user"
    /\ IF req[r].sid \in DOMAIN web_sessions
       THEN /\ web_sessions' =
                 [web_sessions EXCEPT ![req[r].sid].messages =
                     ListAppend(@, WebMessage("user", req[r].message, req[r].rid))]
            /\ appended' = [appended EXCEPT ![req[r].sid] = @ \cup {<<req[r].rid, "user">>}]
            /\ Set(r, [req[r] EXCEPT !.pc = "graph"])
       ELSE /\ Fail500(r)
            /\ UNCHANGED <<web_sessions, appended>>
    /\ UNCHANGED <<session_counter, clock, chatbot, cookie, threads, issued, nreq>>

\* chat, lines 113-135: one turn of the graph on the thread named by the session
\* identifier, and the response collected from its events
ChatGraph(r) ==
    /\ req[r].pc = "graph"
    /\ \E run \in TurnRuns(
                    add_messages(ThreadMessages(threads, req[r].sid),
                                 <<DictMessage("user", req[r].message)>>),
                    "AWAITING_MODEL", <<>>, MaxCycles, tools) :
         /\ threads' = WithEntry(threads, req[r].sid, run.messages)
         /\ IF run.raised
            THEN Fail500(r)
            ELSE Set(r, [req[r] EXCEPT !.pc = "append_assistant",
                                       !.full_response = FullResponse(run.events)])
    /\ UNCHANGED <<web_sessions, session_counter, clock, chatbot, cookie, issued,
                   appended, nreq>>

\* A plausible slip: the reply appended with setdefault, which stores an entry
\* for a session that is not in the store.
ChatAppendAssistantCreates(r) ==
    /\ req[r].pc = "append_assistant"
    /\ web_sessions' =
         WithEntry(web_sessions, req[r].sid,
                   Entry(ListAppend(IF req[r].sid \in DOMAIN web_sessions
                                    THEN web_sessions[req[r].sid].messages ELSE <<>>,
                                    WebMessage("assistant", req[r].full_response,
                                               req[r].rid)),
                         clock, clock))
    /\ appended' = WithEntry(appended, req[r].sid,
                             (IF req[r].sid \in DOMAIN appended
                              THEN appended[req[r].sid] ELSE {})
                             \cup {<<req[r].rid, "assistant">>})
    /\ Set(r, [req[r] EXCEPT !.pc = "done", !.status = 200])
    /\ UNCHANGED <<session_counter, clock, chatbot, cookie, threads, issued, nreq>>

\* chat, lines 138-154
ChatAppendAssistant(r) ==
    /\ req[r].pc = "append_assistant"
    /\ IF req[r].sid \in DOMAIN web_sessions
       THEN /\ web_sessions' =
                 [web_sessions EXCEPT ![req[r].sid].messages =
                     ListAppend(@, WebMessage("assistant", req[r].full_response,
                                              req[r].rid))]
            /\ appended' = [appended EXCEPT ![req[r].sid] =
                                @ \cup {<<req[r].rid, "assistant">>}]
            /\ Set(r, [req[r] EXCEPT !.pc = "done", !.status = 200])
       ELSE /\ Fail500(r)
            /\ UNCHANGED <<web_sessions, appended>>
    /\ UNCHANGED <<session_counter, clock, chatbot, cookie, threads, issued, nreq>>

\* new_session, lines 180-182: the cookie's session leaves the store.  The
\* caller may send the X-Session-ID of the session /api/chat gave it; the
\* handler does not read the header.
BeginNewSession(r) ==
    /\ Free(r)
    /\ nreq < MaxRequests
    /\ nreq' = nreq + 1
    /\ \E c \in Clients, h \in {NoHeader} \cup DOMAIN web_sessions :
         /\ Set(r, [IdleReq EXCEPT !.kind = "new_session", !.pc = "ns_mkid",
                                   !.rid = nreq', !.client = c, !.header = h])
         /\ IF c \in DOMAIN cookie /\ cookie[c] \in DOMAIN web_sessions
            THEN /\ web_sessions' = Without(web_sessions, cookie[c])
                 /\ appended' = Without(appended, cookie[c])
            ELSE UNCHANGED <<web_sessions, appended>>
    /\ UNCHANGED <<session_counter, clock, chatbot, cookie, threads, issued>>

\* new_session, lines 185-186: the identifier from the clock alone, kept in the cookie
NewSessionMakeId(r) ==
    /\ req[r].pc = "ns_mkid"
    /\ cookie' = WithEntry(cookie, req[r].client, NewSessionId(clock))
    /\ Set(r, [req[r] EXCEPT !.pc = "ns_store", !.sid = NewSessionId(clock)])
    /\ UNCHANGED <<web_sessions, session_counter, clock, chatbot, threads, issued,
                   appended, nreq>>

\* new_session, lines 187-198: chatbot.start_session raises AttributeError while the
\* global chatbot is None; otherwise the entry is stored, without 'last_activity'
NewSessionStore(r) ==
    /\ req[r].pc = "ns_store"
    /\ IF chatbot
       THEN /\ web_sessions' = WithEntry(web_sessions, req[r].sid, Entry(<<>>, clock, NoTime))
            /\ appended' = WithEntry(appended, req[r].sid, {})
            /\ issued' = issued \cup {req[r].sid}
            /\ Set(r, [req[r] EXCEPT !.pc = "done", !.status = 200, !.created = TRUE,
                                     !.fresh = req[r].sid \notin issued])
       ELSE /\ Fail500(r)
            /\ UNCHANGED <<web_sessions, appended, issued>>
    /\ UNCHANGED <<session_counter, clock, chatbot, cookie, threads, nreq>>

\* A plausible slip: the history read through get_or_create_session, which
\* stores a session when the identifier is absent or unknown.
ChatHistoryCreates(r) ==
    /\ Free(r)
    /\ nreq < MaxRequests
    /\ nreq' = nreq + 1
    /\ \E h \in Headers :
         IF h = NoHeader \/ h \notin DOMAIN web_sessions
         THEN /\ Set(r, [IdleReq EXCEPT !.kind = "history", !.pc = "done", !.rid = nreq',
                                        !.header = h, !.status = 200,
                                        !.sid = CreatedId(clock, session_counter + 1)])
              /\ web_sessions' = WithEntry(web_sessions,
                                           CreatedId(clock, session_counter + 1),
                                           Entry(<<>>, clock, clock))
              /\ appended' = WithEntry(appended, CreatedId(clock, session_counter + 1), {})
         ELSE /\ Set(r, [IdleReq EXCEPT !.kind = "history", !.pc = "done", !.rid = nreq',
                                        !.header = h, !.sid = h, !.status = 200,
                                        !.body = web_sessions[h].messages])
              /\ UNCHANGED <<web_sessions, appended>>
    /\ UNCHANGED <<session_counter, clock, chatbot, cookie, threads, issued>>

\* get_chat_history, lines 160-174: an absent or unknown identifier is answered
\* with no messages and the marker 'no_session' (sid stays NoHeader).
ChatHistory(r) ==
    /\ Free(r)
    /\ nreq < MaxRequests
    /\ nreq' = nreq + 1
    /\ \E h \in Headers :
         IF h = NoHeader \/ h \notin DOMAIN web_sessions
         THEN Set(r, [IdleReq EXCEPT !.kind = "history", !.pc = "done", !.rid = nreq',
                                     !.header = h, !.status = 200])
         ELSE Set(r, [IdleReq EXCEPT !.kind = "history", !.pc = "done", !.rid = nreq',
                                     !.header = h, !.sid = h, !.status = 200,
                                     !.body = web_sessions[h].messages])
    /\ UNCHANGED <<web_sessions, session_counter, clock, chatbot, cookie, threads,
                   issued, appended>>

\* health, lines 200-216: GET /api/health initialises the chatbot if needed.
Health ==
    /\ ~chatbot
    /\ chatbot' = TRUE
    /\ UNCHANGED <<web_sessions, session_counter, clock, cookie, req, threads,
                   issued, appended, nreq>>

\* time.time() moves to the next second.
Tick ==
    /\ clock < MaxClock
    /\ clock' = clock + 1
    /\ UNCHANGED <<web_sessions, session_counter, chatbot, cookie, req, threads,
                   issued, appended, nreq>>

InitWeb ==
    /\ AppIdle
    /\ TdIdle
    /\ tools = <<>>
    /\ messages = <<>>
    /\ router = "IDLE"
    /\ llm_input = <<>>
    /\ last_step = Step("none", TRUE, <<>>)
    /\ turns = 0
    /\ cycles = 0
    /\ web_sessions = EmptyStore
    /\ session_counter = 0
    /\ clock = 0
    /\ chatbot = FALSE
    /\ cookie = EmptyStore
    /\ req = [r \in Handlers |-> IdleReq]
    /\ threads = EmptyStore
    /\ issued = {}
    /\ appended = EmptyStore
    /\ nreq = 0

WebFrame == UNCHANGED <<td_vars, router_vars, app_vars>>

NextWeb ==
    \/ \E r \in Handlers : BeginChat(r) /\ WebFrame
    \/ \E r \in Handlers : ChatResolve(r) /\ WebFrame
    \/ \E r \in Handlers : CreateIncRead(r) /\ WebFrame
    \/ \E r \in Handlers : CreateIncWrite(r) /\ WebFrame
    \/ \E r \in Handlers : CreateMakeId(r) /\ WebFrame
    \/ \E r \in Handlers : CreateStore(r) /\ WebFrame
    \/ \E r \in Handlers : ChatTouch(r) /\ WebFrame
    \/ \E r \in Handlers : ChatAppendUser(r) /\ WebFrame
    \/ \E r \in Handlers : ChatGraph(r) /\ WebFrame
    \/ \E r \in Handlers : ChatAppendAssistant(r) /\ WebFrame
    \/ \E r \in Handlers : BeginNewSession(r) /\ WebFrame
    \/ \E r \in Handlers : NewSessionMakeId(r) /\ WebFrame
    \/ \E r \in Handlers : NewSessionStore(r) /\ WebFrame
    \/ \E r \in Handlers : ChatHistory(r) /\ WebFrame
    \/ Health /\ WebFrame
    \/ Tick /\ WebFrame

SpecWeb == InitWeb /\ [][NextWeb]_vars

(***************************************************************************)
(* SpecStored: the server after GET /api/health and one POST               *)
(* /api/new_session of client 1 at second 0 have been answered: the store  *)
(* holds the session of client 1's cookie.  nreq counts the requests       *)
(* started after that.                                                     *)
(***************************************************************************)
InitStored ==
    /\ AppIdle
    /\ TdIdle
    /\ tools = <<>>
    /\ messages = <<>>
    /\ router = "IDLE"
    /\ llm_input = <<>>
    /\ last_step = Step("none", TRUE, <<>>)
    /\ turns = 0
    /\ cycles = 0
    /\ web_sessions = WithEntry(EmptyStore, NewSessionId(0), Entry(<<>>, 0, NoTime))
    /\ session_counter = 0
    /\ clock = 0
    /\ chatbot = TRUE
    /\ cookie = WithEntry(EmptyStore, 1, NewSessionId(0))
    /\ req = [r \in Handlers |-> IdleReq]
    /\ threads = EmptyStore
    /\ issued = {NewSessionId(0)}
    /\ appended = WithEntry(EmptyStore, NewSessionId(0), {})
    /\ nreq = 0

NextStored ==
    \/ \E r \in Handlers : BeginChat(r) /\ WebFrame
    \/ \E r \in Handlers : ChatResolve(r) /\ WebFrame
    \/ \E r \in Handlers : CreateIncRead(r) /\ WebFrame
    \/ \E r \in Handlers : CreateIncWrite(r) /\ WebFrame
    \/ \E r \in Handlers : CreateMakeId(r) /\ WebFrame
    \/ \E r \in Handlers : CreateStore(r) /\ WebFrame
    \/ \E r \in Handlers : ChatTouch(r) /\ WebFrame
    \/ \E r \in Handlers : ChatAppendUser(r) /\ WebFrame
    \/ \E r \in Handlers : ChatGraph(r) /\ WebFrame
    \/ \E r \in Handlers : ChatAppendAssistant(r) /\ WebFrame
    \/ \E r \in Handlers : BeginNewSession(r) /\ WebFrame
    \/ \E r \in Handlers : NewSessionMakeId(r) /\ WebFrame
    \/ \E r \in Handlers : NewSessionStore(r) /\ WebFrame
    \/ Tick /\ WebFrame

SpecStored == InitStored /\ [][NextStored]_vars

(***************************************************************************)
(* SpecChat: chat requests served one after the other by one handler       *)
(* thread, with or without the search tool in the registry.                *)
(***************************************************************************)
InitChat ==
    /\ AppIdle
    /\ TdIdle
    /\ tools \in {<<>>, <<SearchTool>>}
    /\ messages = <<>>
    /\ router = "IDLE"
    /\ llm_input = <<>>
    /\ last_step = Step("none", TRUE, <<>>)
    /\ turns = 0
    /\ cycles = 0
    /\ web_sessions = EmptyStore
    /\ session_counter = 0
    /\ clock = 0
    /\ chatbot = FALSE
    /\ cookie = EmptyStore
    /\ req = [r \in Handlers |-> IdleReq]
    /\ threads = EmptyStore
    /\ issued = {}
    /\ appended = EmptyStore
    /\ nreq = 0

NextChat ==
    \/ BeginChat(1) /\ WebFrame
    \/ ChatResolve(1) /\ WebFrame
    \/ CreateIncRead(1) /\ WebFrame
    \/ CreateIncWrite(1) /\ WebFrame
    \/ CreateMakeId(1) /\ WebFrame
    \/ CreateStore(1) /\ WebFrame
    \/ ChatTouch(1) /\ WebFrame
    \/ ChatAppendUser(1) /\ WebFrame
    \/ ChatGraph(1) /\ WebFrame
    \/ ChatAppendAssistant(1) /\ WebFrame

SpecChat == InitChat /\ [][NextChat]_vars


(***************************************************************************)
(* Claims about the session store (SpecWeb).                               *)
(***************************************************************************)
CreatePcs == {"inc_read", "inc_write", "mkid", "store"}

\* C4: a chat request whose header names a session of the store is served in it:
\* it creates no session, the identifier it works on and returns is the one
\* presented, and the session's last-activity time is set to the current time.
C4_KnownSessionServed ==
    /\ [](\A r \in Handlers :
            (req[r].kind = "chat" /\ req[r].known) =>
                /\ req[r].pc \notin CreatePcs
                /\ ~req[r].created
                /\ req[r].sid = req[r].header)
    /\ [][\A r \in Handlers :
            (req[r].kind = "chat" /\ req[r].known /\ req[r].pc = "touch"
                /\ req'[r].pc = "append_user") =>
                web_sessions'[req[r].header].last_activity = clock]_vars

C4_Witness ==
    \E r \in Handlers :
        /\ req[r].kind = "chat"
        /\ req[r].known
        /\ req[r].pc = "done"
        /\ req[r].status = 200
        /\ req[r].sid = req[r].header

\* C5: a chat request that presented no identifier, or one that is not in the
\* store, is answered with the identifier of a session it created, which no
\* earlier creation produced and which differs from the identifier presented.
C5_UnknownGetsFreshSession ==
    \A r \in Handlers :
        (req[r].kind = "chat" /\ req[r].pc = "done" /\ req[r].status = 200
            /\ ~req[r].known) =>
            /\ req[r].created
            /\ req[r].fresh
            /\ req[r].sid # req[r].header

\* C6: every creation of a session, by create_new_session or by /api/new_session,
\* produces an identifier that no earlier creation produced.
C6_CreatedIdentifiersUnique ==
    \A r \in Handlers : req[r].created => req[r].fresh

\* C7: the transcript of a store entry holds exactly the messages appended to it:
\* as many entries as appends, and every appended message among them.
C7_NoLostAppend ==
    \A sid \in DOMAIN web_sessions :
        LET msgs == web_sessions[sid].messages IN
        /\ Len(msgs) = Cardinality(appended[sid])
        /\ \A tag \in appended[sid] :
              \E i \in 1..Len(msgs) : <<msgs[i].rid, msgs[i].role>> = tag

C7_Witness ==
    \E sid \in DOMAIN web_sessions :
        LET msgs == web_sessions[sid].messages IN
        /\ Len(msgs) = 4
        /\ msgs[1].rid # msgs[2].rid
        /\ \A r \in Handlers : req[r].pc = "done" /\ req[r].sid = sid

\* C8: in every transcript an assistant reply directly follows the user message
\* of the same request.
C8_AppendsNotInterleaved ==
    \A sid \in DOMAIN web_sessions :
        LET msgs == web_sessions[sid].messages IN
        \A i \in 1..Len(msgs) :
            msgs[i].role = "assistant" =>
                /\ i > 1
                /\ msgs[i - 1].role = "user"
                /\ msgs[i - 1].rid = msgs[i].rid

C18_AppendToMissingFails ==
    [][\A r \in Handlers :
        (req[r].kind = "chat"
            /\ req[r].pc \in {"touch", "append_user", "append_assistant"}
            /\ req[r].sid \notin DOMAIN web_sessions
            /\ req'[r] # req[r]) =>
            /\ req'[r].pc = "done"
            /\ req'[r].status = 500
            /\ web_sessions' = web_sessions]_vars

C18_Witness ==
    \E r \in Handlers :
        /\ req[r].kind = "chat"
        /\ req[r].known
        /\ req[r].pc = "done"
        /\ req[r].status = 500
        /\ req[r].full_response # ""
        /\ req[r].sid \notin DOMAIN web_sessions
        /\ web_sessions # EmptyStore

(***************************************************************************)
(* Claims about the response of a chat request (SpecChat).                 *)
(***************************************************************************)
\* The request has collected the response of a turn that ended in DONE.
TurnDone(r) ==
    /\ req[r].kind = "chat"
    /\ req[r].pc \in {"append_assistant", "done"}
    /\ req[r].status \in {0, 200}
    /\ req[r].sid \in DOMAIN threads

\* C15: when the turn's last model response has empty content and no tool
\* calls, the response of the request is the empty content.
C15_EmptyReplyIsOutput ==
    \A r \in Handlers :
        (TurnDone(r) /\ Last(threads[req[r].sid]) = [AIMessage(EmptyContent, <<>>)
                            EXCEPT !.id = Len(threads[req[r].sid])]) =>
            req[r].full_response = EmptyContent

\* C20: the response of a request is the content of the last assistant message
\* of its turn, and the transcript ends with the turn's user message directly
\* followed by an assistant entry holding that response.
C20_ResponseIsLastAssistant ==
    \A r \in Handlers :
        TurnDone(r) =>
            /\ Last(threads[req[r].sid]).type = "ai"
            /\ req[r].full_response = Last(threads[req[r].sid]).content
            /\ req[r].pc = "done" =>
                  LET msgs == web_sessions[req[r].sid].messages IN
                  /\ Len(msgs) >= 2
                  /\ msgs[Len(msgs) - 1] = WebMessage("user", req[r].message, req[r].rid)
                  /\ msgs[Len(msgs)] = WebMessage("assistant", req[r].full_response,
                                                  req[r].rid)

(***************************************************************************)
(* Claims about the lifetime and the isolation of sessions.                *)
(***************************************************************************)
\* The step is the deletion of session s by POST /api/new_session.
ExplicitlyDeleted(s) ==
    \E r \in Handlers :
        /\ req[r].pc # "ns_mkid"
        /\ req'[r].kind = "new_session"
        /\ req'[r].pc = "ns_mkid"
        /\ req'[r].client \in DOMAIN cookie
        /\ cookie[req'[r].client] = s

\* C22: a session stays in the store until it is explicitly deleted, and its
\* transcript only changes by messages appended at its end.
C22_SessionsPersistAppendOnly ==
    [][\A s \in DOMAIN web_sessions :
          \/ ExplicitlyDeleted(s)
          \/ /\ s \in DOMAIN web_sessions'
             /\ IsPrefix(web_sessions[s].messages, web_sessions'[s].messages)]_vars

\* C23: a new session starts empty and fully initialised on both creation
\* paths: its entry has no messages, a creation time and a last-activity
\* time, and its graph thread holds no message of an earlier session.
C23_NewSessionInitialised ==
    [][\A r \in Handlers :
          (~req[r].created /\ req'[r].created) =>
              /\ req'[r].sid \in DOMAIN web_sessions'
              /\ web_sessions'[req'[r].sid] = Entry(<<>>, clock, clock)
              /\ ThreadMessages(threads', req'[r].sid) = <<>>]_vars

\* C24: when POST /api/new_session is answered with success, the caller's
\* previous session, the one of its X-Session-ID header included, is not in
\* the store, and the returned identifier is fresh and names a stored session
\* with an empty transcript.
C24_NewSessionReplacesPrevious ==
    [][\A r \in Handlers :
          (req[r].pc = "ns_store" /\ req'[r].pc = "done" /\ req'[r].status = 200) =>
              /\ req'[r].header # NoHeader => req'[r].header \notin DOMAIN web_sessions'
              /\ req'[r].fresh
              /\ req'[r].sid \in DOMAIN web_sessions'
              /\ web_sessions'[req'[r].sid].messages = <<>>]_vars

\* C27: a step of a chat request changes and removes no session of the store
\* other than the one the request is served in.
C27_SessionIsolation ==
    [][\A r \in Handlers :
          (req'[r] # req[r] /\ req'[r].kind = "chat") =>
              \A s \in DOMAIN web_sessions :
                  s # req'[r].sid =>
                      /\ s \in DOMAIN web_sessions'
                      /\ web_sessions'[s] = web_sessions[s]]_vars

\* A chat request was answered while another session with a transcript, last
\* active in an earlier second, was in the store.
C27_Witness ==
    \E r \in Handlers :
        /\ req[r].kind = "chat"
        /\ req[r].pc = "done"
        /\ req[r].status = 200
        /\ \E s \in DOMAIN web_sessions :
              /\ s # req[r].sid
              /\ web_sessions[s].messages # <<>>
              /\ web_sessions[s].last_activity < web_sessions[req[r].sid].last_activity

\* The user messages of request rid that no reply of the same request follows.
Unreplied(store, rid) ==
    {<<s, i>> \in UNION {{s} \X (1..Len(store[s].messages)) : s \in DOMAIN store} :
        /\ store[s].messages[i].role = "user"
        /\ store[s].messages[i].rid = rid
        /\ ~\E j \in (i + 1)..Len(store[s].messages) :
              /\ store[s].messages[j].role = "assistant"
              /\ store[s].messages[j].rid = rid}

\* C28: a chat request that fails (the graph run raises and an error is
\* returned) leaves the store as it was: the session it created is not in the
\* store and no transcript keeps its user message without a reply.
C28_FailedChatLeavesStore ==
    \A r \in Handlers :
        (req[r].kind = "chat" /\ req[r].pc = "done" /\ req[r].status = 500) =>
            /\ ~(req[r].created /\ req[r].sid \in DOMAIN web_sessions)
            /\ Unreplied(web_sessions, req[r].rid) = {}

\* C29: whenever a turn is DONE, every tool-call request of an assistant
\* message in the stored message list has its tool result, so that the model
\* invocations of later turns are not refused for it.
C29_DoneLeavesNoOpenRequest ==
    router = "DONE" => ProviderAccepts(messages)

====
